---- MODULE Spec2Model ----
(***************************************************************************)
(* klip: an MCP server with one tool, copy_to_clipboard, over the host     *)
(* clipboard.                                                              *)
(*                                                                         *)
(* A Rust String is modelled as what it is, a sequence of UTF-8 bytes; a   *)
(* JSON string of a request is the sequence of Unicode scalar values the   *)
(* caller sent.  The host clipboard is one cell shared by every call and   *)
(* by other processes of the host.  Each tool call is a task with the      *)
(* steps of KlipServer::copy_to_clipboard; tasks interleave between the    *)
(* steps, as the multi-threaded runtime of main allows.                    *)
(***************************************************************************)
EXTENDS Integers, Sequences, FiniteSets, TLC

\* ------------------------------------------------------------------ bounds
NumCalls == 2          \* concurrent tool-call tasks
MaxServed == 2         \* tool calls the caller sends in one run
MaxLen == 2            \* longest generated input text, in scalar values

Calls == 1..NumCalls

\* --------------------------------------------------------------- the texts
\* Scalar values of 1, 2, 3 and 4 UTF-8 bytes, and a combining mark.
Scalars == {72, 233, 769, 19990, 127757}

\* "Hello, klip!" (clipboard.rs test_copy_and_read_text)
HelloKlip == <<72, 101, 108, 108, 111, 44, 32, 107, 108, 105, 112, 33>>

\* "Hello <U+4E16><U+754C> <U+1F30D>" (clipboard.rs test_copy_unicode)
HelloUnicode == <<72, 101, 108, 108, 111, 32, 19990, 30028, 32, 127757>>

Globe == <<127757>>

SeqsUpTo(S, n) == UNION {[1..k -> S] : k \in 0..n}

\* The JSON strings the pure-function specification draws its input from.
AllStrings == SeqsUpTo(Scalars, MaxLen) \cup {HelloKlip, HelloUnicode}

\* The JSON strings the caller sends in the server specification.
FewStrings == {<<>>, Globe, <<72, 233>>}

StringPayload(s) == [shape |-> "string", text |-> s]

\* Payloads without a usable `text` field.
Malformed == {[shape |-> "missing", text |-> <<>>], [shape |-> "number", text |-> <<>>]}

FewPayloads == {StringPayload(s) : s \in FewStrings} \cup Malformed

AllPayloads == {StringPayload(s) : s \in AllStrings} \cup Malformed

\* ------------------------------------------------------- Rust String, chars
\* The UTF-8 encoding of one scalar value.
EncodeUtf8(cp) ==
    IF cp < 128 THEN <<cp>>
    ELSE IF cp < 2048 THEN <<192 + (cp \div 64), 128 + (cp % 64)>>
    ELSE IF cp < 65536 THEN
        <<224 + (cp \div 4096), 128 + ((cp \div 64) % 64), 128 + (cp % 64)>>
    ELSE <<240 + (cp \div 262144), 128 + ((cp \div 4096) % 64),
           128 + ((cp \div 64) % 64), 128 + (cp % 64)>>

RECURSIVE ToRustString(_)
\* The String serde builds for the `text` field: the UTF-8 bytes of the scalars.
ToRustString(s) ==
    IF s = <<>> THEN <<>> ELSE EncodeUtf8(Head(s)) \o ToRustString(Tail(s))

\* The bytes of the scalar value that starts with lead byte b.
Utf8Width(b) == IF b < 128 THEN 1 ELSE IF b < 224 THEN 2 ELSE IF b < 240 THEN 3 ELSE 4

\* The scalar value encoded by the 1 to 4 bytes u.
DecodeUtf8(u) ==
    CASE Len(u) = 1 -> u[1]
      [] Len(u) = 2 -> (u[1] % 32) * 64 + (u[2] % 64)
      [] Len(u) = 3 -> (u[1] % 16) * 4096 + (u[2] % 64) * 64 + (u[3] % 64)
      [] Len(u) = 4 -> (u[1] % 8) * 262144 + (u[2] % 64) * 4096 + (u[3] % 64) * 64 + (u[4] % 64)

RECURSIVE Chars(_)
\* str::chars(): the scalar values of a String, in order.
Chars(bytes) ==
    IF bytes = <<>> THEN <<>>
    ELSE LET w == Utf8Width(Head(bytes))
         IN  <<DecodeUtf8(SubSeq(bytes, 1, w))>> \o Chars(SubSeq(bytes, w + 1, Len(bytes)))

\* The byte length of the String, str::len().
ByteCount(bytes) == Len(bytes)

\* The UTF-16 code units of the String: two for a scalar value above U+FFFF.
Utf16Count(bytes) ==
    Len(Chars(bytes)) + Cardinality({i \in DOMAIN bytes : bytes[i] >= 240})

\* params.text.chars().count()
CharsCount(bytes) == Len(Chars(bytes))

\* ------------------------------------------------------------ ClipboardError
InitDetails == {"ClipboardNotSupported"}
CopyDetails == {"ClipboardOccupied"}
ReadDetails == {"ContentNotAvailable"}

InitializationFailed(d) == [kind |-> "InitializationFailed", detail |-> d]
CopyFailed(d) == [kind |-> "CopyFailed", detail |-> d]
ReadFailed(d) == [kind |-> "ReadFailed", detail |-> d]
NonTextData == [kind |-> "NonTextData", detail |-> ""]
Empty == [kind |-> "Empty", detail |-> ""]

ClipboardError ==
    {InitializationFailed(d) : d \in InitDetails}
        \cup {CopyFailed(d) : d \in CopyDetails}
        \cup {ReadFailed(d) : d \in ReadDetails}
        \cup {NonTextData, Empty}

\* thiserror's Display of a ClipboardError: the #[error] format, with {0}.
Display(e) ==
    CASE e.kind = "InitializationFailed" -> <<"Failed to initialize clipboard: ", e.detail>>
      [] e.kind = "CopyFailed" -> <<"Failed to copy to clipboard: ", e.detail>>
      [] e.kind = "ReadFailed" -> <<"Failed to read from clipboard: ", e.detail>>
      [] e.kind = "NonTextData" -> <<"Clipboard contains non-text data", "">>
      [] e.kind = "Empty" -> <<"Clipboard is empty", "">>

\* ---------------------------------------------------------------- responses
ToolErrorCode == -32000

NoResponse == [kind |-> "none"]

\* The failure reported under the protocol's own internal-error code.
McpErrorInternal(e) == [kind |-> "error", code |-> -32603, message |-> Display(e)]

\* McpError::new(ErrorCode(-32000), e.to_string(), None)
McpError(e) == [kind |-> "error", code |-> ToolErrorCode, message |-> Display(e)]

\* format!("Successfully copied {} characters to clipboard", char_count)
SuccessMessage(n) == <<"Successfully copied ", n, " characters to clipboard">>

\* CallToolResult::success(vec![Content::text(message)])
Success(message) == [kind |-> "success", content |-> <<message>>]

\* The protocol layer's answer to a payload it cannot deserialize.
Rejected == [kind |-> "rejected", code |-> -32602]

\* -------------------------------------------------------------- the clipboard
NoText == [has |-> FALSE, text |-> <<>>]
Holding(bytes) == [has |-> TRUE, text |-> bytes]

\* A write the platform accepts puts the old text after the new one.
SetTextAppending(clip, bytes) == Holding(clip.text \o bytes)

\* Clipboard::set_text, accepted: the clipboard's text is replaced in full.
SetText(clip, bytes) == Holding(bytes)

NoManager == 0

\* What another process of the host may put on the clipboard.
ExternalTexts == {ToRustString(<<120>>)}

VARIABLES
    clipboard,    \* the host clipboard: NoText or Holding(bytes)
    platformUp,   \* whether the platform clipboard subsystem can be reached
    pc,           \* per task: "ready", "called" (handler entered), "created" (manager built)
    req,          \* per task: the payload of its current or last call
    text,         \* per task: params.text
    char_count,   \* per task: the local char_count
    manager,      \* per task: the handle of its ClipboardManager, or NoManager
    response,     \* per task: the response of its last call
    nextHandle,   \* handles the platform has given out
    served,       \* calls the transport has delivered
    readResult,   \* the result of a ClipboardManager::get, while no write followed it
    lastWrite,    \* who wrote the clipboard last
    copies,       \* sent texts of the successful copies since the last other write (last two)
    steps,        \* per task: the manager operations of its call and how each ended
    mutations,    \* per task: changes of the clipboard made by its call
    replies       \* per task: responses sent for its call

vars == <<clipboard, platformUp, pc, req, text, char_count, manager, response,
          nextHandle, served, readResult, lastWrite, copies, steps, mutations, replies>>

callVars == <<pc, req, text, char_count, manager, response, steps,
              mutations, replies>>

NoRead == [kind |-> "none", value |-> <<>>]

NoPayload == [shape |-> "none", text |-> <<>>]

Init ==
    /\ clipboard = NoText
    /\ platformUp \in BOOLEAN
    /\ pc = [c \in Calls |-> "ready"]
    /\ req = [c \in Calls |-> NoPayload]
    /\ text = [c \in Calls |-> <<>>]
    /\ char_count = [c \in Calls |-> 0]
    /\ manager = [c \in Calls |-> NoManager]
    /\ response = [c \in Calls |-> NoResponse]
    /\ nextHandle = 0
    /\ served = 0
    /\ readResult = NoRead
    /\ lastWrite = [by |-> "nobody", call |-> 0, sent |-> <<>>]
    /\ copies = <<>>
    /\ steps = [c \in Calls |-> <<>>]
    /\ mutations = [c \in Calls |-> 0]
    /\ replies = [c \in Calls |-> 0]


LastTwo(s) == IF Len(s) > 2 THEN SubSeq(s, Len(s) - 1, Len(s)) ELSE s

\* ----------------------------------------------------------------- transport
\* A `text` field with a serde default: a payload without it deserializes.
DeserializesDefaulting(p) == p.shape \in {"string", "missing"}

\* Parameters<CopyToClipboardInput>: `text` is a required String.
Deserializes(p) == p.shape = "string"

\* The transport delivers a call whose payload deserializes; the handler is entered.
Accept(c, p) ==
    /\ pc[c] = "ready"
    /\ served < MaxServed
    /\ Deserializes(p)
    /\ pc' = [pc EXCEPT ![c] = "called"]
    /\ req' = [req EXCEPT ![c] = p]
    /\ text' = [text EXCEPT ![c] = ToRustString(p.text)]
    /\ response' = [response EXCEPT ![c] = NoResponse]
    /\ served' = served + 1
    /\ steps' = [steps EXCEPT ![c] = <<>>]
    /\ mutations' = [mutations EXCEPT ![c] = 0]
    /\ replies' = [replies EXCEPT ![c] = 0]
    /\ UNCHANGED <<clipboard, platformUp, char_count, manager, nextHandle,
                   readResult, lastWrite, copies>>

\* The transport delivers a call whose payload does not deserialize: the
\* protocol layer answers it and the handler body never runs.
Reject(c, p) ==
    /\ pc[c] = "ready"
    /\ served < MaxServed
    /\ ~Deserializes(p)
    /\ req' = [req EXCEPT ![c] = p]
    /\ response' = [response EXCEPT ![c] = Rejected]
    /\ served' = served + 1
    /\ steps' = [steps EXCEPT ![c] = <<>>]
    /\ mutations' = [mutations EXCEPT ![c] = 0]
    /\ replies' = [replies EXCEPT ![c] = 1]
    /\ UNCHANGED <<clipboard, platformUp, pc, text, char_count, manager,
                   nextHandle, readResult, lastWrite, copies>>

\* ------------------------------------------------------------------ handler
\* The handler returns: its locals and its manager are dropped.
Return(c, r) ==
    /\ response' = [response EXCEPT ![c] = r]
    /\ replies' = [replies EXCEPT ![c] = @ + 1]
    /\ manager' = [manager EXCEPT ![c] = NoManager]
    /\ text' = [text EXCEPT ![c] = <<>>]
    /\ char_count' = [char_count EXCEPT ![c] = 0]
    /\ pc' = [pc EXCEPT ![c] = "ready"]

\* One manager, built once and shared by every call.
NewOkShared(c) ==
    /\ pc[c] = "called"
    /\ platformUp
    /\ char_count' = [char_count EXCEPT ![c] = CharsCount(text[c])]
    /\ steps' = [steps EXCEPT ![c] = Append(@, "new ok")]
    /\ nextHandle' = IF nextHandle = 0 THEN 1 ELSE nextHandle
    /\ manager' = [manager EXCEPT ![c] = 1]
    /\ pc' = [pc EXCEPT ![c] = "created"]
    /\ UNCHANGED <<clipboard, platformUp, req, text, response, served, readResult,
                   lastWrite, copies, mutations, replies>>

\* main.rs 51-55, Clipboard::new succeeding: char_count is taken and the
\* task owns a manager of its own.
NewOk(c) ==
    /\ pc[c] = "called"
    /\ platformUp
    /\ char_count' = [char_count EXCEPT ![c] = CharsCount(text[c])]
    /\ steps' = [steps EXCEPT ![c] = Append(@, "new ok")]
    /\ nextHandle' = nextHandle + 1
    /\ manager' = [manager EXCEPT ![c] = nextHandle + 1]
    /\ pc' = [pc EXCEPT ![c] = "created"]
    /\ UNCHANGED <<clipboard, platformUp, req, text, response, served, readResult,
                   lastWrite, copies, mutations, replies>>

\* The failure of Clipboard::new unwrapped: the task panics without a response.
NewErrPanics(c) ==
    /\ pc[c] = "called"
    /\ ~platformUp
    /\ steps' = [steps EXCEPT ![c] = Append(@, "new err")]
    /\ pc' = [pc EXCEPT ![c] = "panicked"]
    /\ UNCHANGED <<clipboard, platformUp, req, text, char_count, manager, response,
                   nextHandle, served, readResult, lastWrite, copies, mutations,
                   replies>>

\* The failure of Clipboard::new ignored: the handler goes on to the write.
NewErrFallsThrough(c) ==
    /\ pc[c] = "called"
    /\ ~platformUp
    /\ steps' = [steps EXCEPT ![c] = Append(@, "new err")]
    /\ char_count' = [char_count EXCEPT ![c] = CharsCount(text[c])]
    /\ pc' = [pc EXCEPT ![c] = "created"]
    /\ UNCHANGED <<clipboard, platformUp, req, text, manager, response, nextHandle,
                   served, readResult, lastWrite, copies, mutations, replies>>

\* main.rs 51-55, Clipboard::new failing: InitializationFailed is mapped to
\* the tool error and returned by `?`.
NewErr(c) ==
    /\ pc[c] = "called"
    /\ ~platformUp
    /\ steps' = [steps EXCEPT ![c] = Append(@, "new err")]
    /\ \E d \in InitDetails : Return(c, McpError(InitializationFailed(d)))
    /\ UNCHANGED <<clipboard, platformUp, req, nextHandle, served, readResult,
                   lastWrite, copies, mutations>>

\* main.rs 57-63 with clipboard.rs 19-23, the platform accepting the write:
\* the clipboard's text is replaced by params.text and the success message
\* is returned.
CopyOk(c) ==
    /\ pc[c] = "created"
    /\ steps' = [steps EXCEPT ![c] = Append(@, "copy ok")]
    /\ clipboard' = SetText(clipboard, text[c])
    /\ mutations' = [mutations EXCEPT ![c] = @ + 1]
    /\ lastWrite' = [by |-> "copy", call |-> c, sent |-> req[c].text]
    /\ copies' = LastTwo(Append(copies, req[c].text))
    /\ readResult' = NoRead
    /\ Return(c, Success(SuccessMessage(char_count[c])))
    /\ UNCHANGED <<platformUp, req, nextHandle, served>>

\* The failure of the write discarded: the call reports success.
CopyErrSwallowed(c) ==
    /\ pc[c] = "created"
    /\ steps' = [steps EXCEPT ![c] = Append(@, "copy err")]
    /\ Return(c, Success(SuccessMessage(char_count[c])))
    /\ UNCHANGED <<clipboard, platformUp, req, nextHandle, served, readResult,
                   lastWrite, copies, mutations>>

\* main.rs 57-59 with clipboard.rs 19-23, the platform rejecting the write:
\* CopyFailed is mapped to the tool error and returned by `?`.  What a
\* rejected write leaves on the clipboard is the platform's: the old
\* content, or nothing.
CopyErr(c) ==
    /\ pc[c] = "created"
    /\ steps' = [steps EXCEPT ![c] = Append(@, "copy err")]
    /\ \E cleared \in BOOLEAN :
          IF cleared /\ clipboard # NoText
          THEN /\ clipboard' = NoText
               /\ mutations' = [mutations EXCEPT ![c] = @ + 1]
               /\ lastWrite' = [by |-> "failed copy", call |-> c, sent |-> <<>>]
               /\ copies' = <<>>
               /\ readResult' = NoRead
          ELSE UNCHANGED <<clipboard, mutations, lastWrite, copies, readResult>>
    /\ \E d \in CopyDetails : Return(c, McpError(CopyFailed(d)))
    /\ UNCHANGED <<platformUp, req, nextHandle, served>>

\* -------------------------------------------------------------- environment
\* A read that keeps only the ASCII bytes of the text.
GetAsciiOnly(clip) ==
    IF clip.has
    THEN [kind |-> "ok", value |-> SelectSeq(clip.text, LAMBDA b : b < 128)]
    ELSE [kind |-> "ReadFailed", value |-> <<>>]

\* ClipboardManager::get (clipboard.rs 26-30): the clipboard's text, or
\* ReadFailed when the platform has no text to give.
Get(clip) ==
    IF clip.has THEN [kind |-> "ok", value |-> clip.text]
    ELSE [kind |-> "ReadFailed", value |-> <<>>]

\* An observer reads the clipboard through a manager of its own.
Read ==
    /\ platformUp
    /\ readResult = NoRead
    /\ readResult' = Get(clipboard)
    /\ UNCHANGED <<clipboard, platformUp, callVars, nextHandle, served,
                   lastWrite, copies>>

\* Another process of the host writes the clipboard.
ExternalWrite ==
    /\ \E t \in ExternalTexts :
          /\ clipboard # Holding(t)
          /\ clipboard' = Holding(t)
    /\ lastWrite' = [by |-> "external", call |-> 0, sent |-> <<>>]
    /\ copies' = <<>>
    /\ readResult' = NoRead
    /\ UNCHANGED <<platformUp, callVars, nextHandle, served>>

\* The platform clipboard subsystem comes or goes (display server, session).
PlatformChange ==
    /\ platformUp' = ~platformUp
    /\ UNCHANGED <<clipboard, callVars, nextHandle, served, readResult,
                   lastWrite, copies>>

Next ==
    \/ \E c \in Calls, p \in FewPayloads : Accept(c, p)
    \/ \E c \in Calls, p \in FewPayloads : Reject(c, p)
    \/ \E c \in Calls : NewOk(c)
    \/ \E c \in Calls : NewErr(c)
    \/ \E c \in Calls : CopyOk(c)
    \/ \E c \in Calls : CopyErr(c)
    \/ Read
    \/ ExternalWrite
    \/ PlatformChange

Spec == Init /\ [][Next]_vars

\* The runtime polls every task that can run: a handler that was entered
\* takes its next step.
Step(c) == NewOk(c) \/ NewErr(c) \/ CopyOk(c) \/ CopyErr(c)

FairSpec == Spec /\ \A c \in Calls : WF_vars(Step(c))

\* One call on one task, its text drawn from AllStrings.
NextOne ==
    \/ \E p \in AllPayloads : served = 0 /\ Accept(1, p)
    \/ \E p \in AllPayloads : served = 0 /\ Reject(1, p)
    \/ NewOk(1)
    \/ NewErr(1)
    \/ CopyOk(1)
    \/ CopyErr(1)
    \/ Read
    \/ ExternalWrite
    \/ PlatformChange

OneCallSpec == Init /\ [][NextOne]_vars

\* ==================================================================== claims
IsInitError(r) == r.kind = "error" /\ \E d \in InitDetails : r = McpError(InitializationFailed(d))
IsCopyError(r) == r.kind = "error" /\ \E d \in CopyDetails : r = McpError(CopyFailed(d))

Count(s, S) == Cardinality({i \in DOMAIN s : s[i] \in S})

\* C1: when the last write of the clipboard is a successful copy of the text
\* s, a read of the clipboard succeeds and returns exactly s: the same
\* bytes, which decode to the scalar values the caller sent.
C1_RoundTrip ==
    (lastWrite.by = "copy" /\ readResult.kind # "none") =>
        /\ readResult.kind = "ok"
        /\ readResult.value = ToRustString(lastWrite.sent)
        /\ Chars(readResult.value) = lastWrite.sent

C1_Witness ==
    /\ lastWrite.by = "copy"
    /\ lastWrite.sent = <<19990, 769>>
    /\ readResult.kind = "ok"
    /\ readResult.value = ToRustString(<<19990, 769>>)

\* C2: a successful call returns exactly one text message, "Successfully
\* copied N characters to clipboard", N the number of scalar values of the
\* text sent, not its number of bytes.
C2_CountsScalars ==
    \A c \in Calls :
        response[c].kind = "success" =>
            response[c].content = <<SuccessMessage(Len(req[c].text))>>

C2_Witness ==
    /\ response[1].kind = "success"
    /\ req[1].text = Globe
    /\ response[1].content = <<SuccessMessage(1)>>
    /\ Len(ToRustString(Globe)) = 4

\* C3: after successful copies the clipboard holds exactly the text of the
\* most recent one; of two successive copies of different texts a then b,
\* it holds b and not a.
C3_LastWriteWins ==
    lastWrite.by = "copy" =>
        /\ clipboard = Holding(ToRustString(lastWrite.sent))
        /\ Len(copies) >= 1
        /\ copies[Len(copies)] = lastWrite.sent
        /\ (Len(copies) = 2 /\ copies[1] # copies[2]) =>
              clipboard # Holding(ToRustString(copies[1]))

C3_Witness ==
    /\ lastWrite.by = "copy"
    /\ copies = <<<<72, 233>>, Globe>>
    /\ clipboard = Holding(ToRustString(Globe))

\* C4: with the platform unavailable, ClipboardManager::new fails with
\* InitializationFailed and the call completes with that structured error;
\* every call that was entered completes with one response; after a failed
\* call the task is ready and the next call is accepted.
C4_FailedCallLeavesReady ==
    \A c \in Calls :
        response[c].kind = "error" =>
            /\ pc[c] = "ready"
            /\ manager[c] = NoManager
            /\ served < MaxServed => ENABLED (\E p \in FewPayloads : Accept(c, p))

C4_NewFailsWhenUnavailable ==
    \A c \in Calls :
        (pc[c] = "called" /\ ~platformUp /\ pc'[c] # "called") =>
            /\ pc'[c] = "ready"
            /\ IsInitError(response'[c])

C4_Completes ==
    \A c \in Calls : (pc[c] = "called") ~> (pc[c] = "ready" /\ replies[c] = 1)

C4_InitFailureReported ==
    /\ []C4_FailedCallLeavesReady
    /\ [][C4_NewFailsWhenUnavailable]_vars
    /\ C4_Completes

C4_Witness ==
    \E c \in Calls :
        /\ IsInitError(response[c])
        /\ pc[c] = "ready"
        /\ served < MaxServed

\* C5: a call whose payload has no string `text` is rejected before the
\* handler body: no manager is built, no write is attempted, and the
\* clipboard is the same after the call as before it.
C5_HandlerNotEntered ==
    \A c \in Calls :
        req[c] \in Malformed =>
            /\ pc[c] = "ready"
            /\ response[c] = Rejected
            /\ steps[c] = <<>>
            /\ mutations[c] = 0
            /\ manager[c] = NoManager

C5_RejectKeepsClipboard ==
    \A c \in Calls :
        (served' # served /\ req'[c] \in Malformed /\ pc[c] = "ready" /\ replies'[c] = 1) =>
            /\ clipboard' = clipboard
            /\ manager' = manager
            /\ nextHandle' = nextHandle

C5_MalformedRejected ==
    /\ []C5_HandlerNotEntered
    /\ [][C5_RejectKeepsClipboard]_vars

C5_Witness ==
    \E c \in Calls :
        /\ req[c].shape = "missing"
        /\ response[c] = Rejected
        /\ clipboard = Holding(ToRustString(Globe))

\* C6 as stated: the call with "Hello <U+4E16><U+754C> <U+1F30D>" reports 9
\* characters and a following read returns the same string.
C6_AsStated ==
    /\ \A c \in Calls :
          (req[c].text = HelloUnicode /\ response[c].kind = "success") =>
              response[c].content = <<SuccessMessage(9)>>
    /\ (lastWrite.by = "copy" /\ lastWrite.sent = HelloUnicode /\ readResult.kind # "none") =>
          readResult = [kind |-> "ok", value |-> ToRustString(HelloUnicode)]

\* C6, amended: the call with "Hello <U+4E16><U+754C> <U+1F30D>" reports 10
\* characters, the scalar values of that text, and a following read returns
\* the same string.
C6_HelloUnicode ==
    /\ \A c \in Calls :
          (req[c].text = HelloUnicode /\ response[c].kind = "success") =>
              response[c].content = <<SuccessMessage(10)>>
    /\ (lastWrite.by = "copy" /\ lastWrite.sent = HelloUnicode /\ readResult.kind # "none") =>
          readResult = [kind |-> "ok", value |-> ToRustString(HelloUnicode)]

C6_Witness ==
    /\ req[1].text = HelloUnicode
    /\ response[1].kind = "success"
    /\ lastWrite.by = "copy"
    /\ readResult.kind = "ok"

\* The error codes the protocol defines: parse error, invalid request,
\* method not found, invalid params, internal error.
StandardErrorCodes == {-32700, -32600, -32601, -32602, -32603}

\* C7: every failing call of the tool returns the error code -32000, which
\* is none of the protocol's own codes, with the description of the
\* ClipboardError as message; the error is InitializationFailed when new
\* failed and CopyFailed when copy failed, and never another kind.
C7_ErrorShape ==
    \A c \in Calls :
        response[c].kind = "error" =>
            /\ response[c].code = -32000
            /\ response[c].code \notin StandardErrorCodes
            /\ \E e \in ClipboardError :
                  /\ response[c].message = Display(e)
                  /\ e.kind \in {"InitializationFailed", "CopyFailed"}
                  /\ e.kind = "InitializationFailed" <=> steps[c] = <<"new err">>
                  /\ e.kind = "CopyFailed" <=> steps[c] = <<"new ok", "copy err">>

C7_Witness ==
    \E c, d \in Calls :
        /\ response[c] = [kind |-> "error", code |-> -32000,
                          message |-> <<"Failed to initialize clipboard: ", "ClipboardNotSupported">>]
        /\ response[d] = [kind |-> "error", code |-> -32000,
                          message |-> <<"Failed to copy to clipboard: ", "ClipboardOccupied">>]

\* C8: a call tries ClipboardManager::new at most once and the platform
\* write at most once, changes the clipboard at most once, and ends in
\* exactly one response, a success exactly when both steps succeeded and an
\* error exactly when its last step failed.
C8_OnceAndReported ==
    \A c \in Calls :
        /\ Count(steps[c], {"new ok", "new err"}) <= 1
        /\ Count(steps[c], {"copy ok", "copy err"}) <= 1
        /\ mutations[c] <= 1
        /\ replies[c] <= 1
        /\ pc[c] # "ready" => (replies[c] = 0 /\ response[c] = NoResponse)
        /\ (pc[c] = "ready" /\ req[c].shape = "string") =>
              /\ replies[c] = 1
              /\ response[c].kind \in {"success", "error"}
              /\ response[c].kind = "success" <=> steps[c] = <<"new ok", "copy ok">>
              /\ response[c].kind = "error" <=>
                    steps[c] \in {<<"new err">>, <<"new ok", "copy err">>}

C8_Witness ==
    \E c \in Calls :
        /\ pc[c] = "ready"
        /\ steps[c] = <<"new ok", "copy err">>
        /\ response[c].kind = "error"
        /\ mutations[c] = 1

\* C9: concurrent calls never hold the same manager, a call holds a manager
\* only between its new and its return, a manager handed to a call was never
\* handed out before, and when every call has returned success and the last
\* write is a copy the clipboard holds exactly the text of the call that
\* wrote last.
C9_OwnManager ==
    /\ \A c \in Calls : manager[c] # NoManager <=> pc[c] = "created"
    /\ \A c, d \in Calls :
          (c # d /\ manager[c] # NoManager) => manager[c] # manager[d]
    /\ ((\A c \in Calls : pc[c] = "ready" /\ response[c].kind = "success")
            /\ lastWrite.by = "copy") =>
          clipboard = Holding(ToRustString(req[lastWrite.call].text))

C9_FreshManager ==
    \A c \in Calls :
        (manager'[c] # manager[c] /\ manager'[c] # NoManager) => manager'[c] > nextHandle

C9_ManagerPerCall ==
    /\ []C9_OwnManager
    /\ [][C9_FreshManager]_vars

C9_Witness ==
    /\ \A c \in Calls : pc[c] = "ready" /\ response[c].kind = "success"
    /\ \E c, d \in Calls : req[c].text # req[d].text
    /\ lastWrite.by = "copy"
    /\ nextHandle >= NumCalls

\* C10: a call whose ClipboardManager::new failed never calls copy and
\* never changes the clipboard: the step that fails leaves the clipboard as
\* it was, so a text copied before can still be read.
C10_NoCopyAfterFailedNew ==
    \A c \in Calls :
        Count(steps[c], {"new err"}) > 0 =>
            /\ steps[c] = <<"new err">>
            /\ mutations[c] = 0
            /\ pc[c] = "ready"
            /\ IsInitError(response[c])

C10_FailedNewKeepsClipboard ==
    \A c \in Calls :
        (pc[c] = "called" /\ pc'[c] = "ready") =>
            /\ clipboard' = clipboard
            /\ readResult' = readResult

C10_FailedNewFrame ==
    /\ []C10_NoCopyAfterFailedNew
    /\ [][C10_FailedNewKeepsClipboard]_vars

C10_Witness ==
    \E c \in Calls :
        /\ IsInitError(response[c])
        /\ lastWrite.by = "copy"
        /\ lastWrite.sent = Globe
        /\ readResult = [kind |-> "ok", value |-> ToRustString(Globe)]
====
